---- MODULE Spec2Model ----
(***************************************************************************)
(* LIFESTYLE MART (src/app.py): the session cart, the checkout handler,    *)
(* the product reviews and the admin handlers of products, categories,     *)
(* orders and reviews, as a state machine over the tables of the database  *)
(* and the carts of the browser sessions.                                  *)
(*                                                                         *)
(* The customers are logged in (checkout is @login_required) and the admin *)
(* handlers are called by a user of role admin.  A handler that talks to   *)
(* the database once is one step; checkout is a step per cart line and one *)
(* for what follows the loop, so that other requests come in between.  Its *)
(* stock writes stay pending in the request's database session (uow) until *)
(* commit.                                                                 *)
(*                                                                         *)
(* Money is in whole taka.  The prices drawn are multiples of 10, so that  *)
(* the 10% gift-card discount (total_amount * 0.1) is a whole number.      *)
(***************************************************************************)
EXTENDS Integers, Sequences, FiniteSets, TLC

\* ---------------------------------------------------------------- bounds
\* Largest stock an admin form submits and largest quantity a cart line
\* reaches; the last tick of the clock.
MaxStock == 2
MaxQty == 2
MaxClock == 3

\* ------------------------------------------------------ program constants
GiftCardCap == 500
GiftCardRateDivisor == 10
ExpressFee == 100
GiftWrapFee == 50

\* --------------------------------------------------------------- domains
ProductIds == {1, 2}
Sessions == {"u1", "u2"}
Prices == {1200, 6000}
PriceInputs == Prices \cup {-10, 0}
StockInputs == -1 .. MaxStock
QtyInputs == -1 .. MaxQty
CartQtys == -1 .. MaxQty
Methods == {"GET", "POST"}
PaymentMethods == {"cod", "bkash", "nagad", "card", "gift_card"}
DeliveryTypes == {"standard", "express"}
OrderStatuses == {"pending", "processing", "shipped", "delivered", "cancelled"}
StatusInputs == OrderStatuses \cup {"returned"}
OrderIdInputs == {1, 2}
RatingChoices == 1 .. 5
RatingInputs == {0, 1, 5}
ValidTexts == {"long enough"}
TextInputs == ValidTexts \cup {"short"}
ReviewIdInputs == 1 .. 5
CategoryInputs == 0 .. 3
UserIds == {1, 2, 3}
UserIdInputs == 1 .. 4
Roles == {"user", "admin", "seller"}
RoleInputs == Roles \cup {"owner"}
NameInputs == {"", "shoes"}
Suffixes == {7, 8}
CategoryIds == {1, 2}

\* Names bound at module level by the import statements of app.py.
ModuleGlobals ==
    { "Flask", "render_template", "request", "jsonify", "redirect", "url_for",
      "flash", "session", "SQLAlchemy", "LoginManager", "UserMixin",
      "login_user", "logout_user", "login_required", "current_user",
      "FlaskForm", "StringField", "PasswordField", "TextAreaField",
      "IntegerField", "FloatField", "SelectField", "BooleanField",
      "DateField", "DataRequired", "Email", "Length", "NumberRange",
      "EqualTo", "generate_password_hash", "check_password_hash",
      "secure_filename", "datetime", "os", "secrets", "wraps" }

VARIABLES
    products,    \* the products table: id -> [price, stock, status, category_id]
    orders,      \* the orders table (committed rows), in insertion order
    orderItems,  \* the order_items table (committed rows)
    sessCart,    \* session['cart'] of each browser session: product id -> quantity
    chk,         \* the locals of each session's checkout request in flight
    last,        \* the request step executed last, and how it ended
    reviews,     \* the reviews table (committed rows), in insertion order
    categories,  \* the categories table: id -> [name]
    clock,       \* what datetime.utcnow() returns, in ticks
    users        \* the users table: id -> [role]

vars ==
    <<products, orders, orderItems, sessCart, chk, last, reviews, categories, clock,
      users>>

\* ---------------------------------------------------------------- helpers
Min(a, b) == IF a <= b THEN a ELSE b

SetMax(S) == CHOOSE x \in S : \A y \in S : y <= x

EmptyFn == [p \in {} |-> 0]

\* dict helpers over a cart: cart.get(pid, default), cart[pid] = q,
\* cart.pop(pid, None)
CartGet(cart, pid, default) ==
    IF pid \in DOMAIN cart THEN cart[pid] ELSE default

CartSet(cart, pid, q) ==
    [k \in DOMAIN cart \cup {pid} |-> IF k = pid THEN q ELSE cart[k]]

CartPop(cart, pid) ==
    [k \in DOMAIN cart \ {pid} |-> cart[k]]

\* the id SQLite gives the next inserted row: max(rowid) + 1
NextProductId ==
    IF DOMAIN products = {} THEN 1 ELSE SetMax(DOMAIN products) + 1

\* a plausible slip: the NumberRange(min=0) validators are lost
ProductFormValidNoRange(price, stock) == price # 0 /\ stock # 0

\* DataRequired() rejects falsy data (0 included), NumberRange(min=0)
ProductFormValid(price, stock) ==
    /\ price # 0 /\ price >= 0
    /\ stock # 0 /\ stock >= 0

Step(op, sess, outcome) == [op |-> op, sess |-> sess, outcome |-> outcome]

\* no request in flight: none of the handler's locals is bound
NoOrderNumber == 0

IdleChk ==
    [pc |-> "idle", cart |-> EmptyFn, todo |-> {}, total_amount |-> 0,
     order_items |-> <<>>, uow |-> EmptyFn, order_number |-> NoOrderNumber]

\* ------------------------------------------------------------------- Init
\* The tables after database_setup.py, scaled to the bounds: every seeded
\* product is in stock, active, priced and in the first category (as the
\* first two products of the script are); no order has been placed.  The
\* script adds each sample review with probability 1/2: here it added none.
SeedCategories == [c \in CategoryIds |-> [name |-> "seeded"]]

\* the admin user, then the two sample users with the default role
SeedUsers == [u \in UserIds |-> [role |-> IF u = 1 THEN "admin" ELSE "user"]]

SeedProducts ==
    [p \in ProductIds |->
        [price |-> 1200, stock |-> MaxStock, status |-> "active", category_id |-> 1]]

Init ==
    /\ products = SeedProducts
    /\ orders = <<>>
    /\ orderItems = {}
    /\ sessCart = [s \in Sessions |-> EmptyFn]
    /\ chk = [s \in Sessions |-> IdleChk]
    /\ last = Step("init", "none", "ok")
    /\ reviews = <<>>
    /\ categories = SeedCategories
    /\ clock = 0
    /\ users = SeedUsers

\* ------------------------------------------------------------------- cart
\* 'cart_count': sum(cart.values()) of the JSON the cart requests answer with
cart_count(cart) ==
    LET RECURSIVE SumOf(_)
        SumOf(keys) ==
            IF keys = {} THEN 0
            ELSE LET k == CHOOSE x \in keys : TRUE
                 IN  cart[k] + SumOf(keys \ {k})
    IN  SumOf(DOMAIN cart)

\* the JSON body {'success': True, 'cart_count': ...}
CartStep(op, sess, new_cart) ==
    [op |-> op, sess |-> sess, outcome |-> "ok", cart_count |-> cart_count(new_cart)]

\* a plausible slip: the quantity sent replaces the quantity in the cart
add_to_cart_replaces(s, pid, quantity) ==
    LET cart == sessCart[s] IN
    /\ chk[s].pc = "idle"
    /\ CartGet(cart, pid, 0) + quantity \in CartQtys
    /\ IF pid \notin DOMAIN products
       THEN /\ last' = Step("add_to_cart", s, "not_found")
            /\ UNCHANGED sessCart
       ELSE IF products[pid].stock < quantity
       THEN /\ last' = Step("add_to_cart", s, "insufficient_stock")
            /\ UNCHANGED sessCart
       ELSE /\ sessCart' = [sessCart EXCEPT ![s] = CartSet(cart, pid, quantity)]
            /\ last' = CartStep("add_to_cart", s, sessCart'[s])
    /\ UNCHANGED <<products, orders, orderItems, chk, reviews, categories, clock, users>>

\* A browser session sends one request at a time: the cart requests of a
\* session wait for its checkout request in flight.
add_to_cart(s, pid, quantity) ==
    LET cart == sessCart[s]
        newq == CartGet(cart, pid, 0) + quantity
    IN  /\ chk[s].pc = "idle"
        /\ newq \in CartQtys
        /\ IF pid \notin DOMAIN products
           THEN /\ last' = Step("add_to_cart", s, "not_found")
                /\ UNCHANGED sessCart
           ELSE IF products[pid].stock < quantity
           THEN /\ last' = Step("add_to_cart", s, "insufficient_stock")
                /\ UNCHANGED sessCart
           ELSE /\ sessCart' = [sessCart EXCEPT ![s] = CartSet(cart, pid, newq)]
                /\ last' = CartStep("add_to_cart", s, sessCart'[s])
        /\ UNCHANGED <<products, orders, orderItems, chk, reviews, categories, clock, users>>

\* a plausible slip: the quantity sent is added to the quantity in the cart
update_cart_adds(s, pid, quantity) ==
    LET cart == sessCart[s] IN
    /\ chk[s].pc = "idle"
    /\ IF quantity > 0
       THEN IF pid \in DOMAIN products /\ products[pid].stock >= quantity
            THEN /\ sessCart' = [sessCart EXCEPT ![s] =
                                   CartSet(cart, pid, CartGet(cart, pid, 0) + quantity)]
                 /\ last' = CartStep("update_cart", s, sessCart'[s])
            ELSE /\ last' = Step("update_cart", s, "insufficient_stock")
                 /\ UNCHANGED sessCart
       ELSE /\ sessCart' = [sessCart EXCEPT ![s] = CartPop(cart, pid)]
            /\ last' = CartStep("update_cart", s, sessCart'[s])
    /\ UNCHANGED <<products, orders, orderItems, chk, reviews, categories, clock, users>>

update_cart(s, pid, quantity) ==
    LET cart == sessCart[s] IN
    /\ chk[s].pc = "idle"
    /\ IF quantity > 0
       THEN IF pid \in DOMAIN products /\ products[pid].stock >= quantity
            THEN /\ sessCart' = [sessCart EXCEPT ![s] = CartSet(cart, pid, quantity)]
                 /\ last' = CartStep("update_cart", s, sessCart'[s])
            ELSE /\ last' = Step("update_cart", s, "insufficient_stock")
                 /\ UNCHANGED sessCart
       ELSE /\ sessCart' = [sessCart EXCEPT ![s] = CartPop(cart, pid)]
            /\ last' = CartStep("update_cart", s, sessCart'[s])
    /\ UNCHANGED <<products, orders, orderItems, chk, reviews, categories, clock, users>>

remove_from_cart(s, pid) ==
    /\ chk[s].pc = "idle"
    /\ sessCart' = [sessCart EXCEPT ![s] = CartPop(sessCart[s], pid)]
    /\ last' = CartStep("remove_from_cart", s, sessCart'[s])
    /\ UNCHANGED <<products, orders, orderItems, chk, reviews, categories, clock, users>>

\* --------------------------------------------------------------- checkout
\* a plausible slip: the empty-cart test is lost
CartIsEmptyNever(cart) == FALSE

\* `not cart` at the top of the handler
CartIsEmpty(cart) == DOMAIN cart = {}

\* a plausible slip: the line test forgets the stock comparison
LineValidIgnoresStock(db, product_id, quantity) == product_id \in DOMAIN db

\* the test of one cart line against the row Product.query.get returns
LineValid(db, product_id, quantity) ==
    /\ product_id \in DOMAIN db
    /\ db[product_id].stock >= quantity

\* gift-card discount, delivery cost and final total of the handler
GiftCardAmount(payment_method, has_code, total_amount) ==
    IF payment_method = "gift_card" /\ has_code
    THEN Min(GiftCardCap, total_amount \div GiftCardRateDivisor)
    ELSE 0

DeliveryCost(delivery_type, is_gift, gift_wrap) ==
    IF delivery_type = "express" THEN ExpressFee
    ELSE IF is_gift /\ gift_wrap THEN GiftWrapFee
    ELSE 0

FinalTotal(total_amount, gift_card_amount, delivery_cost) ==
    total_amount - gift_card_amount + delivery_cost

PaymentStatus(payment_method) ==
    IF payment_method # "cod" THEN "paid" ELSE "pending"

\* Evaluating a global name that no import or definition of app.py binds
\* raises NameError.
NameRaises(name) == name \notin ModuleGlobals

\* The estimated_delivery argument of Order(...):
\*   datetime.utcnow + (timedelta(days=1) if ... else timedelta(days=3))
\* utcnow is not called there, so the sum would be method + timedelta.
UtcnowCalled == FALSE

EstimatedDeliveryRaises ==
    \/ NameRaises("datetime")
    \/ NameRaises("timedelta")
    \/ ~UtcnowCalled

\* a plausible slip: the failed request's pending stock writes are committed
RollbackKeepsWrites(db, uow) ==
    [p \in DOMAIN db |->
        IF p \in DOMAIN uow THEN [db[p] EXCEPT !.stock = uow[p]] ELSE db[p]]

\* What the request's database session leaves behind when the request ends
\* in an exception: internal_error rolls the session back, so the pending
\* stock writes of the unit of work are discarded.
Rollback(db, uow) == db

\* What commit writes: UPDATE products SET stock = <pending value>.
ApplyUow(db, uow) ==
    [p \in DOMAIN db |->
        IF p \in DOMAIN uow THEN [db[p] EXCEPT !.stock = uow[p]] ELSE db[p]]

OrderNumbers == {orders[i].order_number : i \in 1 .. Len(orders)}

\* actual_delivery of an order not delivered yet: NULL
NoTime == -1

checkout_empty(s, method) ==
    /\ chk[s].pc = "idle"
    /\ CartIsEmpty(sessCart[s])
    /\ last' = Step("checkout", s, "empty_cart")
    /\ UNCHANGED <<products, orders, orderItems, sessCart, chk, reviews, categories, clock, users>>

\* GET, or a POST whose PaymentForm does not validate: the form is rendered
checkout_form(s, method, valid) ==
    /\ chk[s].pc = "idle"
    /\ ~CartIsEmpty(sessCart[s])
    /\ method = "GET" \/ ~valid
    /\ last' = Step("checkout", s, "form")
    /\ UNCHANGED <<products, orders, orderItems, sessCart, chk, reviews, categories, clock, users>>

\* "LSM" + today's date + the four digits of secrets.randbelow(10000).  The
\* requests modelled are all of one day, so the token is told by the draw.
generate_order_number(randbelow) == randbelow

\* POST with a valid PaymentForm: the handler draws the order number and
\* enters the loop over cart.items()
checkout_start(s, randbelow) ==
    /\ chk[s].pc = "idle"
    /\ ~CartIsEmpty(sessCart[s])
    /\ chk' = [chk EXCEPT ![s] =
                 [pc |-> "loop", cart |-> sessCart[s], todo |-> DOMAIN sessCart[s],
                  total_amount |-> 0, order_items |-> <<>>, uow |-> EmptyFn,
                  order_number |-> generate_order_number(randbelow)]]
    /\ last' = Step("checkout", s, "started")
    /\ UNCHANGED <<products, orders, orderItems, sessCart, reviews, categories, clock, users>>

\* One iteration of the loop over cart.items(), for the line of product
\* pid.  The lines come in the dict's insertion order, which is any order of
\* the keys, depending on the requests that built the cart.
checkout_line(s, pid) ==
    LET c == chk[s]
        quantity == c.cart[pid]
        subtotal == products[pid].price * quantity
        rest == c.todo \ {pid}
        pcNext == IF rest = {} THEN "place" ELSE "loop"
    IN  /\ c.pc = "loop"
        /\ pid \in c.todo
        /\ IF LineValid(products, pid, quantity)
           THEN chk' = [chk EXCEPT ![s] =
                   [c EXCEPT !.pc = pcNext, !.todo = rest,
                      !.total_amount = c.total_amount + subtotal,
                      !.order_items = Append(c.order_items,
                          [product_id |-> pid, quantity |-> quantity,
                           price |-> products[pid].price, total |-> subtotal]),
                      !.uow = (pid :> (products[pid].stock - quantity)) @@ c.uow]]
           ELSE chk' = [chk EXCEPT ![s] = [c EXCEPT !.pc = pcNext, !.todo = rest]]
        /\ last' = Step("checkout", s, "line")
        /\ UNCHANGED <<products, orders, orderItems, sessCart, reviews, categories, clock, users>>

\* `if not order_items`: flash and redirect to the cart page
checkout_no_valid_items(s) ==
    /\ chk[s].pc = "place"
    /\ chk[s].order_items = <<>>
    /\ chk' = [chk EXCEPT ![s] = IdleChk]
    /\ last' = Step("checkout", s, "no_valid_items")
    /\ UNCHANGED <<products, orders, orderItems, sessCart, reviews, categories, clock, users>>

\* a plausible slip: the cart is cleared before the order is committed
checkout_fails_clears_cart(s) ==
    /\ products' = products
    /\ chk' = [chk EXCEPT ![s] = IdleChk]
    /\ sessCart' = [sessCart EXCEPT ![s] = EmptyFn]
    /\ last' = Step("checkout", s, "error500")
    /\ UNCHANGED <<orders, orderItems, reviews, categories, clock, users>>

\* the request ends in an unhandled exception: response 500, session rolled back
checkout_fails(s) ==
    /\ products' = Rollback(products, chk[s].uow)
    /\ chk' = [chk EXCEPT ![s] = IdleChk]
    /\ last' = Step("checkout", s, "error500")
    /\ UNCHANGED <<orders, orderItems, sessCart, reviews, categories, clock, users>>

\* The rest of the handler for the form the request carries: adjustments,
\* Order(...), flush, the OrderItem rows, commit, clear the cart.
checkout_commit(s, payment_method, has_code, delivery_type, is_gift, gift_wrap) ==
    LET c == chk[s]
        gift_card_amount == GiftCardAmount(payment_method, has_code, c.total_amount)
        delivery_cost == DeliveryCost(delivery_type, is_gift, gift_wrap)
        final_total == FinalTotal(c.total_amount, gift_card_amount, delivery_cost)
        id == Len(orders) + 1
        order == [id |-> id, user_id |-> s, order_number |-> c.order_number,
                  total_amount |-> final_total, status |-> "pending",
                  actual_delivery |-> NoTime,
                  payment_method |-> payment_method,
                  payment_status |-> PaymentStatus(payment_method),
                  delivery_type |-> delivery_type,
                  gift_card_code |-> has_code,
                  gift_card_amount |-> gift_card_amount,
                  is_gift |-> is_gift, gift_wrap |-> gift_wrap]
        items == {[order_id |-> id, product_id |-> c.order_items[k].product_id,
                   quantity |-> c.order_items[k].quantity,
                   price |-> c.order_items[k].price,
                   total |-> c.order_items[k].total] : k \in 1 .. Len(c.order_items)}
        stale == \E p \in DOMAIN c.uow : p \notin DOMAIN products
    IN  IF c.order_number \in OrderNumbers \/ stale
        THEN checkout_fails(s)
        ELSE /\ orders' = Append(orders, order)
             /\ orderItems' = orderItems \cup items
             /\ products' = ApplyUow(products, c.uow)
             /\ sessCart' = [sessCart EXCEPT ![s] = EmptyFn]
             /\ chk' = [chk EXCEPT ![s] = IdleChk]
             /\ last' = Step("checkout", s, "success")
             /\ UNCHANGED <<reviews, categories, clock, users>>

\* After the loop kept a line: the keyword arguments of Order(...) are
\* evaluated, and the estimated_delivery argument raises whatever the form
\* holds; otherwise the order is stored for the form sent.
checkout_place_order(s) ==
    /\ chk[s].pc = "place"
    /\ chk[s].order_items # <<>>
    /\ IF EstimatedDeliveryRaises
       THEN checkout_fails(s)
       ELSE \E pm \in PaymentMethods, code \in BOOLEAN, dt \in DeliveryTypes,
               g \in BOOLEAN, w \in BOOLEAN :
                 checkout_commit(s, pm, code, dt, g, w)

\* ------------------------------------------------------------------ admin
\* category_id is a SelectField whose choices are the ids of the categories
\* that exist when the form is built: a value that is not a choice, or that
\* DataRequired() finds falsy, fails validation.
CategoryChoiceValid(category_id) ==
    category_id \in DOMAIN categories /\ category_id # 0

admin_add_product(category_id, price, stock) ==
    /\ IF ProductFormValid(price, stock) /\ CategoryChoiceValid(category_id)
       THEN /\ NextProductId \in ProductIds
            /\ products' = (NextProductId :>
                  [price |-> price, stock |-> stock, status |-> "active",
                   category_id |-> category_id]) @@ products
            /\ last' = Step("admin_add_product", "admin", "ok")
       ELSE /\ last' = Step("admin_add_product", "admin", "form")
            /\ UNCHANGED products
    /\ UNCHANGED <<orders, orderItems, sessCart, chk, reviews, categories, clock, users>>

admin_edit_product(id, category_id, price, stock) ==
    /\ IF id \notin DOMAIN products
       THEN /\ last' = Step("admin_edit_product", "admin", "not_found")
            /\ UNCHANGED products
       ELSE IF ProductFormValid(price, stock) /\ CategoryChoiceValid(category_id)
       THEN /\ products' = [products EXCEPT ![id].price = price, ![id].stock = stock,
                                            ![id].category_id = category_id]
            /\ last' = Step("admin_edit_product", "admin", "ok")
       ELSE /\ last' = Step("admin_edit_product", "admin", "form")
            /\ UNCHANGED products
    /\ UNCHANGED <<orders, orderItems, sessCart, chk, reviews, categories, clock, users>>

\* Deleting a product sets the product_id of its order items and of its
\* reviews to NULL, which the NOT NULL columns refuse: the request ends in
\* IntegrityError.
admin_delete_product(id) ==
    /\ IF id \notin DOMAIN products
       THEN /\ last' = Step("admin_delete_product", "admin", "not_found")
            /\ UNCHANGED products
       ELSE IF \/ \E it \in orderItems : it.product_id = id
               \/ \E k \in 1 .. Len(reviews) : reviews[k].product_id = id
       THEN /\ last' = Step("admin_delete_product", "admin", "error500")
            /\ UNCHANGED products
       ELSE /\ products' = [p \in DOMAIN products \ {id} |-> products[p]]
            /\ last' = Step("admin_delete_product", "admin", "ok")
    /\ UNCHANGED <<orders, orderItems, sessCart, chk, reviews, categories, clock, users>>

\* ------------------------------------------------------------------- Next
\* One customer session and the admin: every request of the cart, checkout
\* and product handlers, in any order.  The product forms are sent with the
\* category the seeded products are in.  With one checkout at a time and
\* no order stored, the draw of the order number is told by one value.
Customers == {"u1"}
KeptCategory == 1
CustomerSuffixes == {7}

Next ==
    \/ \E s \in Customers, pid \in ProductIds, q \in QtyInputs : add_to_cart(s, pid, q)
    \/ \E s \in Customers, pid \in ProductIds, q \in QtyInputs : update_cart(s, pid, q)
    \/ \E s \in Customers, pid \in ProductIds : remove_from_cart(s, pid)
    \/ \E s \in Customers, m \in Methods : checkout_empty(s, m)
    \/ \E s \in Customers, m \in Methods, valid \in BOOLEAN : checkout_form(s, m, valid)
    \/ \E s \in Customers, r \in CustomerSuffixes : checkout_start(s, r)
    \/ \E s \in Customers, pid \in ProductIds : checkout_line(s, pid)
    \/ \E s \in Customers : checkout_no_valid_items(s)
    \/ \E s \in Customers : checkout_place_order(s)
    \/ \E price \in PriceInputs, stock \in StockInputs :
            admin_add_product(KeptCategory, price, stock)
    \/ \E id \in ProductIds, price \in PriceInputs, stock \in StockInputs :
            admin_edit_product(id, KeptCategory, price, stock)
    \/ \E id \in ProductIds : admin_delete_product(id)

Spec == Init /\ [][Next]_vars

\* ------------------------------------------------- two checkouts racing
\* Two customers have each put one unit of the same product, of which one
\* unit is in stock, in their carts, and both have sent a valid checkout POST:
\* both handlers are about to enter the loop over cart.items().
RaceCart(p) == (p :> 1)

RaceInit ==
    \E p \in ProductIds :
        /\ products \in [ProductIds ->
               [price : Prices, stock : 1 .. MaxStock, status : {"active"},
                category_id : {1}]]
        /\ products[p].stock = 1
        /\ orders = <<>>
        /\ orderItems = {}
        /\ sessCart = [s \in Sessions |-> RaceCart(p)]
        /\ \E r \in [Sessions -> Suffixes] :
              chk = [s \in Sessions |->
                 [pc |-> "loop", cart |-> RaceCart(p), todo |-> {p},
                  total_amount |-> 0, order_items |-> <<>>, uow |-> EmptyFn,
                  order_number |-> generate_order_number(r[s])]]
        /\ last \in {Step("checkout", s, "started") : s \in Sessions}
        /\ reviews = <<>>
        /\ categories = SeedCategories
        /\ clock = 0
        /\ users = SeedUsers

RaceNext ==
    \/ \E s \in Sessions, pid \in ProductIds : checkout_line(s, pid)
    \/ \E s \in Sessions : checkout_place_order(s)

SpecRace == RaceInit /\ [][RaceNext]_vars

\* ------------------------------------------------------------- categories
\* the id SQLite gives the next inserted category: max(rowid) + 1
NextCategoryId ==
    IF DOMAIN categories = {} THEN 1 ELSE SetMax(DOMAIN categories) + 1

\* a plausible slip: the test for products of the category is lost
CategoryHasProductsNever(db, id) == FALSE

\* `if category.products`: the products whose category_id is the category's
CategoryHasProducts(db, id) == \E p \in DOMAIN db : db[p].category_id = id

CategoryStep(op, outcome, id) ==
    [op |-> op, sess |-> "admin", outcome |-> outcome, id |-> id]

admin_add_category(method, name) ==
    /\ IF method = "POST" /\ name # ""
       THEN /\ NextCategoryId \in CategoryIds
            /\ categories' = (NextCategoryId :> [name |-> name]) @@ categories
            /\ last' = CategoryStep("admin_add_category", "ok", NextCategoryId)
       ELSE /\ last' = CategoryStep("admin_add_category", "form", 0)
            /\ UNCHANGED categories
    /\ UNCHANGED <<products, orders, orderItems, sessCart, chk, reviews, clock, users>>

admin_edit_category(id, method, name) ==
    /\ IF id \notin DOMAIN categories
       THEN /\ last' = CategoryStep("admin_edit_category", "not_found", id)
            /\ UNCHANGED categories
       ELSE IF method = "POST" /\ name # ""
       THEN /\ categories' = [categories EXCEPT ![id].name = name]
            /\ last' = CategoryStep("admin_edit_category", "ok", id)
       ELSE /\ last' = CategoryStep("admin_edit_category", "form", id)
            /\ UNCHANGED categories
    /\ UNCHANGED <<products, orders, orderItems, sessCart, chk, reviews, clock, users>>

admin_delete_category(id) ==
    /\ IF id \notin DOMAIN categories
       THEN /\ last' = CategoryStep("admin_delete_category", "not_found", id)
            /\ UNCHANGED categories
       ELSE IF CategoryHasProducts(products, id)
       THEN /\ last' = CategoryStep("admin_delete_category", "refused", id)
            /\ UNCHANGED categories
       ELSE /\ categories' = [c \in DOMAIN categories \ {id} |-> categories[c]]
            /\ last' = CategoryStep("admin_delete_category", "ok", id)
    /\ UNCHANGED <<products, orders, orderItems, sessCart, chk, reviews, clock, users>>

\* The admin at work on the catalog: every request of the category and
\* product handlers, in any order, from the seeded tables.
CatalogNext ==
    \/ \E m \in Methods, name \in NameInputs : admin_add_category(m, name)
    \/ \E id \in CategoryIds, m \in Methods, name \in NameInputs :
            admin_edit_category(id, m, name)
    \/ \E id \in CategoryIds : admin_delete_category(id)
    \/ \E c \in CategoryInputs, price \in PriceInputs, stock \in StockInputs :
            admin_add_product(c, price, stock)
    \/ \E id \in ProductIds, c \in CategoryInputs, price \in PriceInputs,
          stock \in StockInputs : admin_edit_product(id, c, price, stock)
    \/ \E id \in ProductIds : admin_delete_product(id)

SpecCatalog == Init /\ [][CatalogNext]_vars

\* ---------------------------------------------------------------- reviews
\* ReviewForm: rating is one of the five choices, the text has 10 to 500
\* characters.
ReviewFormValid(rating, review_text) ==
    rating \in RatingChoices /\ review_text \in ValidTexts

\* a plausible slip: only the reviews on display count as existing
ExistingReviewApprovedOnly(rv, user_id, product_id) ==
    \E k \in 1 .. Len(rv) :
        /\ rv[k].user_id = user_id /\ rv[k].product_id = product_id
        /\ rv[k].status = "approved"

\* Review.query.filter_by(user_id=..., product_id=...).first() is not None
ExistingReview(rv, user_id, product_id) ==
    \E k \in 1 .. Len(rv) :
        rv[k].user_id = user_id /\ rv[k].product_id = product_id

ReviewStep(op, sess, outcome, product_id) ==
    [op |-> op, sess |-> sess, outcome |-> outcome, product_id |-> product_id]

\* The handler queries and inserts within one request; the requests are
\* handled one after another.
add_review(s, product_id, rating, review_text) ==
    /\ IF product_id \notin DOMAIN products
       THEN /\ last' = ReviewStep("add_review", s, "not_found", product_id)
            /\ UNCHANGED reviews
       ELSE IF ~ReviewFormValid(rating, review_text)
       THEN /\ last' = ReviewStep("add_review", s, "form", product_id)
            /\ UNCHANGED reviews
       ELSE IF ExistingReview(reviews, s, product_id)
       THEN /\ last' = ReviewStep("add_review", s, "duplicate", product_id)
            /\ UNCHANGED reviews
       ELSE /\ reviews' = Append(reviews,
                 [product_id |-> product_id, user_id |-> s, rating |-> rating,
                  review_text |-> review_text, status |-> "approved"])
            /\ last' = ReviewStep("add_review", s, "ok", product_id)
    /\ UNCHANGED <<products, orders, orderItems, sessCart, chk, categories, clock, users>>

\* a plausible slip: moderating a review a second time the same way sends
\* it back to the queue
SetReviewStatusToggles(rv, id, status) ==
    [rv EXCEPT ![id].status = IF rv[id].status = status THEN "pending" ELSE status]

\* review.status = 'approved' / 'rejected', then commit
SetReviewStatus(rv, id, status) == [rv EXCEPT ![id].status = status]

ModerationStep(op, outcome, id, before) ==
    [op |-> op, sess |-> "admin", outcome |-> outcome, id |-> id, before |-> before]

admin_approve_review(id) ==
    /\ IF id \notin 1 .. Len(reviews)
       THEN /\ last' = ModerationStep("admin_approve_review", "not_found", id, "none")
            /\ UNCHANGED reviews
       ELSE /\ reviews' = SetReviewStatus(reviews, id, "approved")
            /\ last' = ModerationStep("admin_approve_review", "ok", id, reviews[id].status)
    /\ UNCHANGED <<products, orders, orderItems, sessCart, chk, categories, clock, users>>

admin_reject_review(id) ==
    /\ IF id \notin 1 .. Len(reviews)
       THEN /\ last' = ModerationStep("admin_reject_review", "not_found", id, "none")
            /\ UNCHANGED reviews
       ELSE /\ reviews' = SetReviewStatus(reviews, id, "rejected")
            /\ last' = ModerationStep("admin_reject_review", "ok", id, reviews[id].status)
    /\ UNCHANGED <<products, orders, orderItems, sessCart, chk, categories, clock, users>>

\* The sample reviews of database_setup.py: for each product and each user,
\* in that order, an approved review is added or not on the toss of a coin.
\* (The script draws the rating from 3 to 5; here it is 5.)
SeedReviewsAll ==
    << [product_id |-> 1, user_id |-> "u1", rating |-> 5,
        review_text |-> "long enough", status |-> "approved"],
       [product_id |-> 1, user_id |-> "u2", rating |-> 5,
        review_text |-> "long enough", status |-> "approved"],
       [product_id |-> 2, user_id |-> "u1", rating |-> 5,
        review_text |-> "long enough", status |-> "approved"],
       [product_id |-> 2, user_id |-> "u2", rating |-> 5,
        review_text |-> "long enough", status |-> "approved"] >>

ReviewsInit ==
    /\ products = SeedProducts
    /\ orders = <<>>
    /\ orderItems = {}
    /\ sessCart = [s \in Sessions |-> EmptyFn]
    /\ chk = [s \in Sessions |-> IdleChk]
    /\ last = Step("init", "none", "ok")
    /\ \E tossed \in SUBSET (1 .. Len(SeedReviewsAll)) :
          reviews = SelectSeq(SeedReviewsAll,
                       LAMBDA r : \E k \in tossed : SeedReviewsAll[k] = r)
    /\ categories = SeedCategories
    /\ clock = 0
    /\ users = SeedUsers

ReviewsNext ==
    \/ \E s \in Sessions, pid \in ProductIds, rating \in RatingInputs,
          review_text \in TextInputs : add_review(s, pid, rating, review_text)
    \/ \E id \in ReviewIdInputs : admin_approve_review(id)
    \/ \E id \in ReviewIdInputs : admin_reject_review(id)
    \/ \E id \in ProductIds : admin_delete_product(id)

SpecReviews == ReviewsInit /\ [][ReviewsNext]_vars

\* ----------------------------------------------------------- order admin
\* What the handler does to the order row it fetched, for a status of the
\* enum: the status is overwritten and, for delivered, so is actual_delivery.
UpdateOrderStatus(order, new_status, utcnow) ==
    IF new_status = "delivered"
    THEN [order EXCEPT !.status = new_status, !.actual_delivery = utcnow]
    ELSE [order EXCEPT !.status = new_status]

\* Each request comes a tick after the one before it.
admin_update_order_status(id, new_status) ==
    /\ clock < MaxClock
    /\ clock' = clock + 1
    /\ IF id \notin 1 .. Len(orders)
       THEN /\ last' = Step("admin_update_order_status", "admin", "not_found")
            /\ UNCHANGED orders
       ELSE IF new_status \in OrderStatuses
       THEN /\ orders' = [orders EXCEPT
                            ![id] = UpdateOrderStatus(orders[id], new_status, clock')]
            /\ last' = Step("admin_update_order_status", "admin", "ok")
       ELSE /\ last' = Step("admin_update_order_status", "admin", "invalid_status")
            /\ UNCHANGED orders
    /\ UNCHANGED <<products, orderItems, sessCart, chk, reviews, categories, users>>

\* The order handlers take the row Order.query.get_or_404 returns as given.
\* Here the orders table holds one order of one unit of product 1, with the
\* fields the checkout handler gives an order it stores, for each payment
\* method and order number.
OrderAdminInit ==
    /\ products = SeedProducts
    /\ \E pm \in PaymentMethods, n \in Suffixes :
          orders = << [id |-> 1, user_id |-> "u1",
                       order_number |-> generate_order_number(n),
                       total_amount |-> FinalTotal(1200, 0, 0), status |-> "pending",
                       actual_delivery |-> NoTime,
                       payment_method |-> pm,
                       payment_status |-> PaymentStatus(pm),
                       delivery_type |-> "standard",
                       gift_card_code |-> FALSE,
                       gift_card_amount |-> 0,
                       is_gift |-> FALSE, gift_wrap |-> FALSE] >>
    /\ orderItems = {[order_id |-> 1, product_id |-> 1, quantity |-> 1,
                      price |-> 1200, total |-> 1200]}
    /\ sessCart = [s \in Sessions |-> EmptyFn]
    /\ chk = [s \in Sessions |-> IdleChk]
    /\ last = Step("init", "none", "ok")
    /\ reviews = <<>>
    /\ categories = SeedCategories
    /\ clock = 0
    /\ users = SeedUsers

OrderAdminNext ==
    \E id \in OrderIdInputs, new_status \in StatusInputs :
        admin_update_order_status(id, new_status)

SpecOrderAdmin == OrderAdminInit /\ [][OrderAdminNext]_vars

\* ------------------------------------------------------------------ users
\* admin_required lets the handler run for a logged-in user of role admin
AdminRequired(db, current_user) == db[current_user].role = "admin"

\* a plausible slip: the test that keeps an admin from their own role is lost
IsOwnAccountNever(id, current_user) == FALSE

\* `if user.id == current_user.id`
IsOwnAccount(id, current_user) == id = current_user

UserStep(op, current_user, outcome, id) ==
    [op |-> op, sess |-> current_user, outcome |-> outcome, id |-> id]

\* The request of the logged-in user current_user, handled in one piece.
admin_toggle_user_role(current_user, id, new_role) ==
    /\ IF ~AdminRequired(users, current_user)
       THEN /\ last' = UserStep("admin_toggle_user_role", current_user,
                                "admin_required", id)
            /\ UNCHANGED users
       ELSE IF id \notin DOMAIN users
       THEN /\ last' = UserStep("admin_toggle_user_role", current_user, "not_found", id)
            /\ UNCHANGED users
       ELSE IF IsOwnAccount(id, current_user)
       THEN /\ last' = UserStep("admin_toggle_user_role", current_user, "own_role", id)
            /\ UNCHANGED users
       ELSE IF new_role \in Roles
       THEN /\ users' = [users EXCEPT ![id].role = new_role]
            /\ last' = UserStep("admin_toggle_user_role", current_user, "ok", id)
       ELSE /\ last' = UserStep("admin_toggle_user_role", current_user,
                                "invalid_role", id)
            /\ UNCHANGED users
    /\ UNCHANGED <<products, orders, orderItems, sessCart, chk, reviews, categories,
                   clock>>

UsersNext ==
    \E current_user \in UserIds, id \in UserIdInputs, new_role \in RoleInputs :
        admin_toggle_user_role(current_user, id, new_role)

SpecUsers == Init /\ [][UsersNext]_vars

\* ------------------------------------------------------------- cart page
ProductStatuses == {"active", "inactive"}

\* the test of the cart page on one cart line: the line is displayed and
\* counted into the total
CartDisplays(db, product_id) ==
    /\ product_id \in DOMAIN db
    /\ db[product_id].status = "active"

\* The database holds products of either status of the column and of some
\* stock; no handler writes the status, so it is the one the row was stored
\* with.
ShelfInit ==
    /\ products \in [ProductIds ->
                        [price : {1200}, stock : 1 .. MaxStock,
                         status : ProductStatuses, category_id : {1}]]
    /\ orders = <<>>
    /\ orderItems = {}
    /\ sessCart = [s \in Sessions |-> EmptyFn]
    /\ chk = [s \in Sessions |-> IdleChk]
    /\ last = Step("init", "none", "ok")
    /\ reviews = <<>>
    /\ categories = SeedCategories
    /\ clock = 0
    /\ users = SeedUsers

ShelfNext ==
    \/ \E s \in Customers, pid \in ProductIds, q \in QtyInputs : add_to_cart(s, pid, q)
    \/ \E s \in Customers, pid \in ProductIds, q \in QtyInputs : update_cart(s, pid, q)
    \/ \E s \in Customers, pid \in ProductIds : remove_from_cart(s, pid)
    \/ \E s \in Customers, m \in Methods : checkout_empty(s, m)
    \/ \E s \in Customers, m \in Methods, valid \in BOOLEAN : checkout_form(s, m, valid)
    \/ \E s \in Customers, r \in CustomerSuffixes : checkout_start(s, r)
    \/ \E s \in Customers, pid \in ProductIds : checkout_line(s, pid)
    \/ \E s \in Customers : checkout_no_valid_items(s)
    \/ \E s \in Customers : checkout_place_order(s)

SpecShelf == ShelfInit /\ [][ShelfNext]_vars

\* ----------------------------------------------------------------- claims
\* the step just taken is a step of session s's checkout request
CheckoutStepOf(s) == last'.op = "checkout" /\ last'.sess = s

\* the step just taken ends session s's checkout request after the loop
CheckoutPlacedBy(s) == CheckoutStepOf(s) /\ chk[s].pc = "place"

\* session s's loop kept at least one line, and every line it kept asks for
\* one unit or more
HasValidLines(s) ==
    /\ chk[s].order_items # <<>>
    /\ \A k \in 1 .. Len(chk[s].order_items) : chk[s].order_items[k].quantity >= 1

\* the claimed pricing rule, from the cart lines kept and the order's fields
ClaimedSubtotal(items) ==
    LET RECURSIVE Sum(_)
        Sum(k) == IF k = 0 THEN 0
                  ELSE items[k].quantity * items[k].price + Sum(k - 1)
    IN  Sum(Len(items))

ClaimedDiscount(o, subtotal) ==
    IF o.payment_method = "gift_card" /\ o.gift_card_code
    THEN (IF 10 * 500 <= subtotal THEN 500 ELSE subtotal \div 10)
    ELSE 0

ClaimedSurcharge(o) ==
    IF o.delivery_type = "express" THEN 100
    ELSE IF o.is_gift /\ o.gift_wrap THEN 50 ELSE 0

\* a cart line the loop must drop: product deleted, or stock below quantity
ClaimedLineInvalid(pid, quantity) ==
    \/ pid \notin DOMAIN products
    \/ products[pid].stock < quantity

\* both racing checkout requests have ended
RaceDone == \A s \in Sessions : chk[s].pc = "idle"

\* C1: in every reachable state the stock of every product is at least 0,
\* in the committed rows and in the pending value a checkout in flight holds.
C1_StockNonNegative ==
    /\ \A p \in DOMAIN products : products[p].stock >= 0
    /\ \A s \in Sessions : \A p \in DOMAIN chk[s].uow : chk[s].uow[p] >= 0

\* C1 witness: a checkout in flight has taken the last unit of a product
\* whose stock an admin edit had set.
C1_Witness ==
    \E s \in Sessions : \E p \in DOMAIN chk[s].uow :
        /\ chk[s].uow[p] = 0
        /\ p \in DOMAIN products /\ products[p].stock = 1

\* C2 (as claimed): a checkout POST with a valid form that found at least
\* one valid line (here: lines of one unit or more) succeeds, adds exactly one order, and adds exactly one
\* order item per valid line with the line's quantity, price and total.
C2_ValidCheckoutSucceeds ==
    [][\A s \in Sessions :
         (CheckoutPlacedBy(s) /\ HasValidLines(s)) =>
            /\ last'.outcome = "success"
            /\ Len(orders') = Len(orders) + 1
            /\ orderItems' \ orderItems =
                 {[order_id |-> Len(orders'),
                   product_id |-> chk[s].order_items[k].product_id,
                   quantity |-> chk[s].order_items[k].quantity,
                   price |-> chk[s].order_items[k].price,
                   total |-> chk[s].order_items[k].quantity
                               * chk[s].order_items[k].price] :
                      k \in 1 .. Len(chk[s].order_items)}]_vars

\* C3 (as claimed): when a checkout with valid lines ends, the stock of each
\* product it consumed is the stock the checkout read minus the quantity
\* ordered, and the stock of every other product is unchanged.
C3_StockDecremented ==
    [][\A s \in Sessions :
         (CheckoutPlacedBy(s) /\ HasValidLines(s)) =>
            \A p \in DOMAIN products :
               products'[p].stock =
                  IF p \in DOMAIN chk[s].uow THEN chk[s].uow[p]
                  ELSE products[p].stock]_vars

\* C4 (as claimed): the checkout of the valid lines leaves an order whose
\* total_amount is subtotal - discount + surcharge for the form it was
\* sent with, and whose gift_card_amount is that discount.
C4_OrderTotal ==
    [][\A s \in Sessions :
         (CheckoutPlacedBy(s) /\ HasValidLines(s)) =>
            /\ Len(orders') = Len(orders) + 1
            /\ LET o == orders'[Len(orders')]
                   subtotal == ClaimedSubtotal(chk[s].order_items)
               IN  /\ o.gift_card_amount = ClaimedDiscount(o, subtotal)
                   /\ o.total_amount =
                        subtotal - ClaimedDiscount(o, subtotal) + ClaimedSurcharge(o)]_vars

\* C6 (as claimed): once both racing checkouts have ended, exactly one order
\* exists and the product both asked for has stock 0.
C6_ExactlyOneSucceeds ==
    RaceDone =>
        /\ Len(orders) = 1
        /\ \E p \in DOMAIN products :
              /\ \A s \in Sessions : p \in DOMAIN sessCart[s] \/ sessCart[s] = EmptyFn
              /\ products[p].stock = 0

\* C7: a checkout request, GET or POST, made while the session cart has no
\* line ends with the empty-cart outcome and changes no order, order item,
\* product or cart.
C7_EmptyCart ==
    [][\A s \in Sessions :
         (CheckoutStepOf(s) /\ chk[s].pc = "idle" /\ DOMAIN sessCart[s] = {}) =>
            /\ last'.outcome = "empty_cart"
            /\ chk'[s].pc = "idle"
            /\ UNCHANGED <<products, orders, orderItems, sessCart>>]_vars

C7_Witness ==
    \E s \in Sessions :
        /\ last = Step("checkout", s, "empty_cart")
        /\ DOMAIN sessCart[s] = {}

\* C8: the loop drops a line whose product is deleted or has less stock than
\* the line's quantity, and a checkout POST all of whose lines were dropped
\* ends with the no-valid-items outcome and changes no order, order item,
\* product or cart.
C8_NoValidItems ==
    [][\A s \in Sessions :
         /\ \A pid \in ProductIds :
              ( /\ CheckoutStepOf(s) /\ chk[s].pc = "loop"
                /\ chk'[s].todo = chk[s].todo \ {pid} /\ pid \in chk[s].todo
                /\ ClaimedLineInvalid(pid, chk[s].cart[pid]) ) =>
                  /\ chk'[s].order_items = chk[s].order_items
                  /\ chk'[s].uow = chk[s].uow
         /\ (CheckoutPlacedBy(s) /\ chk[s].order_items = <<>>) =>
              /\ last'.outcome = "no_valid_items"
              /\ UNCHANGED <<products, orders, orderItems, sessCart>>]_vars

\* C8 witness: a two-line cart, one line of a deleted product and one line
\* asking for more than the stock, was refused.
C8_Witness ==
    \E s \in Sessions :
        /\ last = Step("checkout", s, "no_valid_items")
        /\ \E p \in DOMAIN sessCart[s] : p \notin DOMAIN products
        /\ \E p \in DOMAIN sessCart[s] :
              p \in DOMAIN products /\ products[p].stock < sessCart[s][p]

\* C9: no step of a checkout that does not commit changes a product, an order
\* or an order item, and a checkout that fails after the loop decremented
\* stock leaves nothing pending: the stock is what it was before the checkout.
C9_AllOrNothing ==
    [][\A s \in Sessions :
         (CheckoutStepOf(s) /\ last'.outcome # "success") =>
            /\ UNCHANGED <<products, orders, orderItems>>
            /\ last'.outcome = "error500" => chk'[s] = IdleChk]_vars

\* C9 witness: a checkout whose loop had decremented stock ended in the
\* persistence error.
C9_Witness ==
    \E s \in Sessions :
        /\ last = Step("checkout", s, "error500")
        /\ \E p \in DOMAIN sessCart[s] :
              /\ p \in DOMAIN products
              /\ sessCart[s][p] > 0
              /\ products[p].stock >= sessCart[s][p]

\* C10: a checkout step empties the session cart only when it commits the
\* order: a step that succeeds leaves the cart empty and one more order, and
\* every other checkout step leaves the cart as it was.
C10_CartClearedAfterCommit ==
    [][\A s \in Sessions :
         CheckoutStepOf(s) =>
            /\ last'.outcome = "success" =>
                 (DOMAIN sessCart'[s] = {} /\ Len(orders') = Len(orders) + 1)
            /\ last'.outcome # "success" => sessCart'[s] = sessCart[s]]_vars

\* C10 witness: a checkout that ended in the persistence error has left
\* its two-line cart behind.
C10_Witness ==
    \E s \in Sessions :
        /\ last = Step("checkout", s, "error500")
        /\ DOMAIN sessCart[s] = ProductIds

\* C11 (as claimed): two order creations that have both come through the
\* loop over the cart hold distinct order numbers, and no two stored orders
\* share one.
C11_OrderNumbersDistinct ==
    /\ \A s, t \in Sessions :
          (s # t /\ chk[s].pc = "place" /\ chk[t].pc = "place") =>
             chk[s].order_number # chk[t].order_number
    /\ \A i, j \in 1 .. Len(orders) :
          i # j => orders[i].order_number # orders[j].order_number

C13_OneReviewPerUserProduct ==
    /\ [](\A i, j \in 1 .. Len(reviews) :
            (reviews[i].user_id = reviews[j].user_id
               /\ reviews[i].product_id = reviews[j].product_id) => i = j)
    /\ [][( /\ last'.op = "add_review"
            /\ \E k \in 1 .. Len(reviews) :
                  /\ reviews[k].user_id = last'.sess
                  /\ reviews[k].product_id = last'.product_id ) =>
               /\ last'.outcome \in {"duplicate", "form"}
               /\ reviews' = reviews]_vars

\* C13 witness: a second review was turned down for a product whose first
\* review by that user had been rejected by the admin.
C13_Witness ==
    /\ last.op = "add_review" /\ last.outcome = "duplicate"
    /\ \E k \in 1 .. Len(reviews) :
          /\ reviews[k].user_id = last.sess
          /\ reviews[k].product_id = last.product_id
          /\ reviews[k].status = "rejected"
          /\ reviews[k].rating = 1

\* C19: approving an approved review, or rejecting a rejected one, changes
\* nothing (twice is as once); after approve the review is approved and
\* after reject it is rejected; and no step gives a review that exists the
\* status pending.
C19_ModerationIdempotentTerminal ==
    /\ [](\A id \in 1 .. Len(reviews) : \A st \in {"approved", "rejected"} :
            SetReviewStatus(SetReviewStatus(reviews, id, st), id, st)
               = SetReviewStatus(reviews, id, st))
    /\ [][\A id \in 1 .. Len(reviews) :
            /\ (last'.op = "admin_approve_review" /\ last'.id = id) =>
                  /\ reviews'[id].status = "approved"
                  /\ reviews[id].status = "approved" => reviews' = reviews
            /\ (last'.op = "admin_reject_review" /\ last'.id = id) =>
                  /\ reviews'[id].status = "rejected"
                  /\ reviews[id].status = "rejected" => reviews' = reviews
            /\ reviews'[id].status = "pending" => reviews[id].status = "pending"]_vars

\* C19 witness: a review that was rejected has been rejected once more and
\* is rejected, beside a review that is approved.
C19_Witness ==
    /\ last.op = "admin_reject_review" /\ last.outcome = "ok"
    /\ last.before = "rejected"
    /\ reviews[last.id].status = "rejected"
    /\ \E k \in 1 .. Len(reviews) : reviews[k].status = "approved"

\* the two readings of the number add_to_cart answers with
ClaimedLineCount(cart) == Cardinality(DOMAIN cart)

ClaimedQuantitySum(cart) ==
    LET q(p) == IF p \in DOMAIN cart THEN cart[p] ELSE 0
    IN  q(1) + q(2)

\* what the claim says of an add_to_cart(pid, quantity) step of session s
\* for a product that exists, but for the number returned
ClaimedAddToCart(s, pid, quantity) ==
    IF quantity > products[pid].stock
    THEN /\ last'.outcome = "insufficient_stock"
         /\ sessCart'[s] = sessCart[s]
    ELSE /\ last'.outcome = "ok"
         /\ DOMAIN sessCart'[s] = DOMAIN sessCart[s] \cup {pid}
         /\ sessCart'[s][pid] =
               (IF pid \in DOMAIN sessCart[s] THEN sessCart[s][pid] ELSE 0) + quantity
         /\ \A p \in DOMAIN sessCart[s] \ {pid} : sessCart'[s][p] = sessCart[s][p]

\* C14 (as claimed): add_to_cart fails and leaves the cart alone when the
\* quantity exceeds the stock; otherwise it adds the quantity to the line of
\* the product, leaves the other lines alone and returns the number of lines
\* of the cart.  (Stated for quantities of one unit or more and carts whose
\* lines hold one unit or more.)
C14_AddToCartReturnsLineCount ==
    [][\A s \in Sessions, pid \in DOMAIN products, quantity \in 1 .. MaxQty :
         ( /\ last'.op = "add_to_cart"
           /\ \A p \in DOMAIN sessCart[s] : sessCart[s][p] >= 1
           /\ add_to_cart(s, pid, quantity) ) =>
            /\ ClaimedAddToCart(s, pid, quantity)
            /\ last'.outcome = "ok" =>
                  last'.cart_count = ClaimedLineCount(sessCart'[s])]_vars

\* C14 (amended): the same, but the number returned is the sum of the
\* quantities of the lines of the cart.
C14_AddToCartReturnsQuantitySum ==
    [][\A s \in Sessions, pid \in DOMAIN products, quantity \in QtyInputs :
         (last'.op = "add_to_cart" /\ add_to_cart(s, pid, quantity)) =>
            /\ ClaimedAddToCart(s, pid, quantity)
            /\ last'.outcome = "ok" =>
                  last'.cart_count = ClaimedQuantitySum(sessCart'[s])]_vars

\* C14 witness: an add_to_cart has answered 3 for a cart of two lines, one
\* of which it raised from one unit to two.
C14_Witness ==
    \E s \in Sessions :
        /\ last.op = "add_to_cart" /\ last.sess = s /\ last.outcome = "ok"
        /\ last.cart_count = 3
        /\ Cardinality(DOMAIN sessCart[s]) = 2
        /\ \E p \in DOMAIN sessCart[s] : sessCart[s][p] = 2

\* C15: update_cart with a quantity of 0 or less removes the line of the
\* product, if there is one; with a quantity above 0 and within the stock of
\* a product that exists it makes the quantity sent the quantity of the
\* line; with any other quantity above 0 it fails and the cart is as it was.
\* No other line changes.
C15_UpdateCart ==
    [][\A s \in Sessions, pid \in ProductIds, quantity \in QtyInputs :
         (last'.op = "update_cart" /\ update_cart(s, pid, quantity)) =>
            /\ \A p \in (DOMAIN sessCart[s] \cup DOMAIN sessCart'[s]) \ {pid} :
                  /\ p \in DOMAIN sessCart[s] /\ p \in DOMAIN sessCart'[s]
                  /\ sessCart'[s][p] = sessCart[s][p]
            /\ IF quantity <= 0
               THEN /\ pid \notin DOMAIN sessCart'[s]
                    /\ last'.outcome = "ok"
               ELSE IF pid \in DOMAIN products /\ quantity <= products[pid].stock
               THEN /\ pid \in DOMAIN sessCart'[s]
                    /\ sessCart'[s][pid] = quantity
                    /\ last'.outcome = "ok"
               ELSE /\ sessCart'[s] = sessCart[s]
                    /\ last'.outcome # "ok"]_vars

\* C15 witness: an update_cart has been refused for a product that is gone,
\* and has left the line of that product and another line in the cart.
C15_Witness ==
    \E s \in Sessions :
        /\ last = Step("update_cart", s, "insufficient_stock")
        /\ \E p \in DOMAIN sessCart[s] : p \notin DOMAIN products
        /\ Cardinality(DOMAIN sessCart[s]) = 2

\* C16 (as claimed): the checkout of the valid lines leaves an order whose
\* payment_status is paid for bkash, nagad, card and gift_card and pending
\* for cod.
C16_PaymentStatus ==
    [][\A s \in Sessions :
         (CheckoutPlacedBy(s) /\ HasValidLines(s)) =>
            /\ Len(orders') = Len(orders) + 1
            /\ LET o == orders'[Len(orders')]
               IN  /\ o.payment_method \in {"bkash", "nagad", "card", "gift_card"}
                        => o.payment_status = "paid"
                   /\ o.payment_method = "cod" => o.payment_status = "pending"]_vars

\* C17 (as claimed): whatever cart the cart requests have built and
\* whatever form is sent, the total_amount the handler gives the order it
\* builds from the lines it kept is 0 or more.
C17_TotalNonNegative ==
    \A s \in Sessions :
        (chk[s].pc = "place" /\ chk[s].order_items # <<>>) =>
           \A pm \in PaymentMethods, code \in BOOLEAN, dt \in DeliveryTypes,
              g \in BOOLEAN, w \in BOOLEAN :
                 FinalTotal(chk[s].total_amount,
                            GiftCardAmount(pm, code, chk[s].total_amount),
                            DeliveryCost(dt, g, w)) >= 0

\* C18 (as claimed): the checkout of the valid lines leaves an order whose
\* total exceeds subtotal minus discount by 100 for express delivery, by 50
\* when gift-wrap was asked for and the delivery is not express, and by 0
\* otherwise.
C18_Surcharge ==
    [][\A s \in Sessions :
         (CheckoutPlacedBy(s) /\ HasValidLines(s)) =>
            /\ Len(orders') = Len(orders) + 1
            /\ LET o == orders'[Len(orders')]
                   surcharge == o.total_amount + o.gift_card_amount
                                   - ClaimedSubtotal(chk[s].order_items)
               IN  /\ o.delivery_type = "express" => surcharge = 100
                   /\ (o.delivery_type # "express" /\ o.gift_wrap) => surcharge = 50
                   /\ (o.delivery_type # "express" /\ ~o.gift_wrap) => surcharge = 0]_vars

\* C20: the category of every product exists; admin_delete_category of a
\* category that has a product is refused and changes no category and no
\* product, and of a category that has none deletes that category and
\* nothing else.
C20_NoOrphanedProduct ==
    /\ [](\A p \in DOMAIN products : products[p].category_id \in DOMAIN categories)
    /\ [][\A id \in DOMAIN categories :
            (last'.op = "admin_delete_category" /\ last'.id = id) =>
               /\ products' = products
               /\ IF \E p \in DOMAIN products : products[p].category_id = id
                  THEN /\ last'.outcome = "refused"
                       /\ categories' = categories
                  ELSE /\ last'.outcome = "ok"
                       /\ DOMAIN categories' = DOMAIN categories \ {id}
                       /\ \A c \in DOMAIN categories' : categories'[c] = categories[c]]_vars

\* C20 witness: with the other category deleted, the deletion of the one
\* category left, which has a product, was refused.
C20_Witness ==
    /\ last.op = "admin_delete_category" /\ last.outcome = "refused"
    /\ DOMAIN categories = {last.id}
    /\ \E p \in DOMAIN products : products[p].category_id = last.id

\* C21 (as claimed): every line of every session cart holds one unit or
\* more.
C21_CartQuantityPositive ==
    \A s \in Sessions : \A p \in DOMAIN sessCart[s] : sessCart[s][p] >= 1

\* C22 (as claimed): right after an add_to_cart or update_cart that
\* succeeded for a product, the cart's quantity of that product is within
\* the product's stock.
C22_CartWithinStock ==
    [][\A s \in Sessions, pid \in DOMAIN products, quantity \in QtyInputs :
         ( /\ last'.op \in {"add_to_cart", "update_cart"}
           /\ last'.outcome = "ok"
           /\ add_to_cart(s, pid, quantity) \/ update_cart(s, pid, quantity)
           /\ pid \in DOMAIN sessCart'[s] ) =>
              sessCart'[s][pid] <= products[pid].stock]_vars

\* C23: some user has the role admin; an admin_toggle_user_role request of
\* a user who is not an admin, for the requester's own account or with a
\* role that is none of the three changes no role; and a request that is
\* not carried out changes no role.
C23_AdminRemains ==
    /\ [](\E u \in DOMAIN users : users[u].role = "admin")
    /\ [][last'.op = "admin_toggle_user_role" =>
            /\ ( \/ users[last'.sess].role # "admin"
                 \/ last'.id = last'.sess ) => last'.outcome # "ok"
            /\ last'.outcome # "ok" => users' = users
            /\ last'.outcome = "ok" =>
                  \A u \in DOMAIN users \ {last'.id} : users'[u] = users[u]]_vars

\* C23 witness: the seeded admin has been made a plain user by an admin
\* they had appointed, who was then refused a change of their own role and
\* is the one admin left.
C23_Witness ==
    /\ last.op = "admin_toggle_user_role" /\ last.outcome = "own_role"
    /\ users[1].role = "user"
    /\ {u \in DOMAIN users : users[u].role = "admin"} = {last.sess}

====
